---- MODULE Spec2Model ----
(***************************************************************************)
(* Week-view layout of DavidAlphaFox/event-calendar.                       *)
(*                                                                         *)
(*   src/components/calendar/week-view.tsx  WeekView: the memoised values  *)
(*       days, weekStart, allDayEvents, processedDayEvents and the all-day *)
(*       section of the render.                                            *)
(*   src/components/calendar/utils.ts       isMultiDayEvent and the        *)
(*       useCurrentTimeIndicator hook.                                     *)
(*                                                                         *)
(* Representation.  A Date is an integer count of minutes of local wall    *)
(* clock time since the midnight that starts day 0, and day 0 is a Sunday. *)
(* Lengths that the code computes as fractions are kept as exact integers: *)
(* top and height are in 1/60 pixel (hours * 60 * hourHeight), left and    *)
(* width are in tenths of the day-column width, currentTimePosition is in  *)
(* 1/1440 percent.                                                         *)
(***************************************************************************)
EXTENDS Integers, Sequences, FiniteSets, TLC

VARIABLES currentDate, events, days, allDayEvents, processedDayEvents, allDaySection,
          mounted, indicatorDate, view, now, timers, interval, nextHandle,
          currentTimePosition, currentTimeVisible

weekViewVars == <<currentDate, events, days, allDayEvents, processedDayEvents, allDaySection>>
indicatorVars == <<mounted, indicatorDate, view, now, timers, interval, nextHandle,
                   currentTimePosition, currentTimeVisible>>
vars == <<currentDate, events, days, allDayEvents, processedDayEvents, allDaySection,
          mounted, indicatorDate, view, now, timers, interval, nextHandle,
          currentTimePosition, currentTimeVisible>>

----------------------------------------------------------------------------
(* Bounds of the model. *)

\* Longest event list of the column-packing specification.
MaxEvents == 3
\* Longest event list of the banner specification.
MaxBannerEvents == 1
\* Longest event list of the stacking specification.
MaxStack == 12
\* Number of times the wall clock advances in the indicator specification.
MaxClockSteps == 3
\* Number of interval handles setInterval hands out in the indicator specification.
MaxHandles == 4

----------------------------------------------------------------------------
(* Dates: the date-fns functions the two files import, on minute counts. *)

MinutesPerHour == 60
MinutesPerDay == 24 * 60
DaysPerWeek == 7

startOfDay(d) == d - (d % MinutesPerDay)

getHours(d) == (d % MinutesPerDay) \div MinutesPerHour

getMinutes(d) == d % MinutesPerHour

addHours(d, h) == d + h * MinutesPerHour

isSameDay(a, b) == startOfDay(a) = startOfDay(b)

isBefore(a, b) == a < b

\* Day of the week, 0 = Sunday.
getDay(d) == (d \div MinutesPerDay) % DaysPerWeek

\* startOfWeek(d, { weekStartsOn: 0 })
startOfWeek(d) == startOfDay(d) - getDay(d) * MinutesPerDay

\* endOfWeek(d, { weekStartsOn: 0 }): the last instant of the Saturday.
endOfWeek(d) == startOfWeek(d) + DaysPerWeek * MinutesPerDay - 1

\* eachDayOfInterval: the midnight of every day from start's day to end's day.
eachDayOfInterval(start, end) ==
    [i \in 1..((startOfDay(end) - startOfDay(start)) \div MinutesPerDay + 1) |->
        startOfDay(start) + (i - 1) * MinutesPerDay]

differenceInMinutes(l, r) == l - r

differenceInCalendarDays(l, r) == (startOfDay(l) - startOfDay(r)) \div MinutesPerDay

\* differenceInDays(l, r): the calendar-day difference, less one when the last
\* day is not full (l moved back by the difference is still on the wrong side of r).
differenceInDays(l, r) ==
    LET sign == IF l < r THEN -1 ELSE IF l > r THEN 1 ELSE 0
        cal == differenceInCalendarDays(l, r)
        difference == IF cal < 0 THEN -cal ELSE cal
        moved == l - sign * difference * MinutesPerDay
        cmp == IF moved < r THEN -1 ELSE IF moved > r THEN 1 ELSE 0
        isLastDayNotFull == IF cmp = -sign /\ sign # 0 THEN 1 ELSE 0
    IN  sign * (difference - isLastDayNotFull)

\* areIntervalsOverlapping without the inclusive option.
areIntervalsOverlapping(l, r) == l.start < r.end /\ r.start < l.end

isWithinInterval(d, i) == i.start <= d /\ d <= i.end

----------------------------------------------------------------------------
(* Generic sequence helpers. *)

Range(s) == {s[i] : i \in DOMAIN s}

----------------------------------------------------------------------------
(* WeekView: the memoised values (week-view.tsx). *)

\* hourHeight: height of an hour cell in pixels.
hourHeight == 56

\* days: the seven midnights of the week of currentDate.
Days(date) == eachDayOfInterval(startOfWeek(date), endOfWeek(date))

\* weekStart
WeekStart(date) == startOfWeek(date)

\* The test the three filters share: the event starts on the day, ends on the
\* day, or starts before and ends after the day's midnight.
TouchesDay(event, day) ==
    \/ isSameDay(day, event.start)
    \/ isSameDay(day, event.end)
    \/ (day > event.start /\ day < event.end)

\* isMultiDayEvent (utils.ts) and the first filter of allDayEvents.
isMultiDayEvent(event) == event.allDay \/ differenceInDays(event.end, event.start) >= 1

\* allDayEvents: the all-day and multi-day events that touch a day of the week.
AllDayEvents(evs, ds) ==
    LET multi == SelectSeq(evs, LAMBDA e : e.allDay \/ differenceInDays(e.end, e.start) >= 1)
    IN  SelectSeq(multi, LAMBDA e : \E i \in DOMAIN ds : TouchesDay(e, ds[i]))

\* Mutant of IsDayEvent: an event is skipped as soon as it ends on a later
\* calendar date than it starts.
IsDayEvent_CalendarDays(event, day) ==
    IF event.allDay THEN FALSE
    ELSE IF differenceInCalendarDays(event.end, event.start) >= 1 THEN FALSE
    ELSE \/ isSameDay(day, event.start)
         \/ isSameDay(day, event.end)
         \/ (event.start < day /\ event.end > day)

\* Mutant of IsDayEvent: the day on which the event ends is forgotten.
IsDayEvent_NoEndDay(event, day) ==
    IF event.allDay THEN FALSE
    ELSE IF differenceInDays(event.end, event.start) >= 1 THEN FALSE
    ELSE \/ isSameDay(day, event.start)
         \/ (event.start < day /\ event.end > day)

\* The filter of dayEvents: is the event in the timed grid of the day?
IsDayEvent(event, day) ==
    IF event.allDay THEN FALSE
    ELSE IF differenceInDays(event.end, event.start) >= 1 THEN FALSE
    ELSE \/ isSameDay(day, event.start)
         \/ isSameDay(day, event.end)
         \/ (event.start < day /\ event.end > day)

DayEvents(evs, day) == SelectSeq(evs, LAMBDA e : IsDayEvent(e, day))

\* Mutant of CompareEvents: among equal starts the shorter event first.
CompareEvents_ShorterFirst(a, b) ==
    IF a.start < b.start THEN -1
    ELSE IF a.start > b.start THEN 1
    ELSE differenceInMinutes(a.end, a.start) - differenceInMinutes(b.end, b.start)

\* The comparator of sortedEvents: by start, then longer events first.
CompareEvents(a, b) ==
    IF a.start < b.start THEN -1
    ELSE IF a.start > b.start THEN 1
    ELSE differenceInMinutes(b.end, b.start) - differenceInMinutes(a.end, a.start)

\* Array.prototype.sort is stable: x goes after every element that does not
\* compare greater than it.
RECURSIVE InsertSorted(_, _)
InsertSorted(sorted, x) ==
    IF sorted = <<>> THEN <<x>>
    ELSE IF CompareEvents(Head(sorted), x) <= 0
         THEN <<Head(sorted)>> \o InsertSorted(Tail(sorted), x)
         ELSE <<x>> \o sorted

RECURSIVE SortedEvents(_)
SortedEvents(dayEvents) ==
    IF dayEvents = <<>> THEN <<>>
    ELSE InsertSorted(SortedEvents(SubSeq(dayEvents, 1, Len(dayEvents) - 1)),
                      dayEvents[Len(dayEvents)])

\* adjustedStart and adjustedEnd: the event's bounds, or the day's when the
\* bound is on another day.
AdjustedStart(event, day) ==
    IF isSameDay(day, event.start) THEN event.start ELSE startOfDay(day)

AdjustedEnd(event, day) ==
    IF isSameDay(day, event.end) THEN event.end ELSE addHours(startOfDay(day), 24)

\* top and height, in 1/60 pixel: getHours and getMinutes read the wall clock
\* of the adjusted bound.
Top(adjustedStart) ==
    (getHours(adjustedStart) * MinutesPerHour + getMinutes(adjustedStart)) * hourHeight

Height(adjustedStart, adjustedEnd) ==
    (getHours(adjustedEnd) * MinutesPerHour + getMinutes(adjustedEnd)) * hourHeight
        - Top(adjustedStart)

\* Mutant of Overlaps: only the event placed last in the column is compared.
Overlaps_LastOnly(column, adjustedStart, adjustedEnd) ==
    /\ column # <<>>
    /\ areIntervalsOverlapping([start |-> adjustedStart, end |-> adjustedEnd],
                               [start |-> column[Len(column)].event.start,
                                end |-> column[Len(column)].event.end])

\* overlaps: does the adjusted interval overlap an event already in the column?
\* The column's events are compared by their own start and end.
Overlaps(column, adjustedStart, adjustedEnd) ==
    \E i \in DOMAIN column :
        areIntervalsOverlapping([start |-> adjustedStart, end |-> adjustedEnd],
                                [start |-> column[i].event.start, end |-> column[i].event.end])

\* The while loop: the first column index, from columnIndex on, that does not
\* exist yet or holds no overlapping event.  columns[k] of the code is columns[k + 1].
RECURSIVE FindColumn(_, _, _, _)
FindColumn(columns, columnIndex, adjustedStart, adjustedEnd) ==
    IF columnIndex >= Len(columns) THEN columnIndex
    ELSE IF ~Overlaps(columns[columnIndex + 1], adjustedStart, adjustedEnd) THEN columnIndex
    ELSE FindColumn(columns, columnIndex + 1, adjustedStart, adjustedEnd)

\* width and left, in tenths of the day column.
Width(columnIndex) == IF columnIndex = 0 THEN 10 ELSE 9

Left(columnIndex) == IF columnIndex = 0 THEN 0 ELSE columnIndex

ZIndex(columnIndex) == 10 + columnIndex

\* The body of sortedEvents.forEach, from the i-th sorted event on.
RECURSIVE PlaceEvents(_, _, _, _, _)
PlaceEvents(sorted, i, day, columns, positionedEvents) ==
    IF i > Len(sorted) THEN positionedEvents
    ELSE LET event == sorted[i]
             adjustedStart == AdjustedStart(event, day)
             adjustedEnd == AdjustedEnd(event, day)
             columnIndex == FindColumn(columns, 0, adjustedStart, adjustedEnd)
             entry == [event |-> event, end |-> adjustedEnd]
             columns2 == IF columnIndex >= Len(columns)
                         THEN Append(columns, <<entry>>)
                         ELSE [columns EXCEPT ![columnIndex + 1] = Append(@, entry)]
             positioned == [event |-> event,
                            top |-> Top(adjustedStart),
                            height |-> Height(adjustedStart, adjustedEnd),
                            left |-> Left(columnIndex),
                            width |-> Width(columnIndex),
                            zIndex |-> ZIndex(columnIndex)]
         IN  PlaceEvents(sorted, i + 1, day, columns2, Append(positionedEvents, positioned))

\* processedDayEvents: per day, the positioned events in placement order.
ProcessedDayEvents(evs, ds) ==
    [d \in DOMAIN ds |-> PlaceEvents(SortedEvents(DayEvents(evs, ds[d])), 1, ds[d], <<>>, <<>>)]

----------------------------------------------------------------------------
(* WeekView: the all-day section of the render (week-view.tsx). *)

\* dayAllDayEvents
DayAllDayEvents(allDay, day) ==
    SelectSeq(allDay, LAMBDA e : \/ isSameDay(day, e.start)
                                 \/ (day > e.start /\ day < e.end)
                                 \/ isSameDay(day, e.end))

\* Mutant of IsFirstVisibleDay: any cell counts as the first visible day.
IsFirstVisibleDay_AnyCell(event, dayIndex, weekStart) ==
    isBefore(event.start, weekStart)

IsFirstVisibleDay(event, dayIndex, weekStart) ==
    dayIndex = 0 /\ isBefore(event.start, weekStart)

ShouldShowTitle(event, day, dayIndex, weekStart) ==
    isSameDay(day, event.start) \/ IsFirstVisibleDay(event, dayIndex, weekStart)

\* The branch that renders a DraggableEvent.
IsDraggable(event, day) ==
    LET isMultiDay == differenceInDays(event.end, event.start) >= 1
        isFirstDay == isSameDay(day, event.start)
    IN  ~isMultiDay /\ isFirstDay

\* One rendered element of a day cell.  The draggable branch hands the
\* DraggableEvent isFirstDay = isLastDay = true and the event, title included;
\* the other branch rounds by the cell's own isFirstDay and isLastDay and hides
\* the title unless shouldShowTitle.
Segment(event, day, dayIndex, weekStart) ==
    IF IsDraggable(event, day)
    THEN [event |-> event, draggable |-> TRUE, isFirstDay |-> TRUE, isLastDay |-> TRUE,
          titleShown |-> TRUE]
    ELSE [event |-> event, draggable |-> FALSE,
          isFirstDay |-> isSameDay(day, event.start),
          isLastDay |-> isSameDay(day, event.end),
          titleShown |-> ShouldShowTitle(event, day, dayIndex, weekStart)]

\* The seven day cells; dayIndex of the code is d - 1.
AllDaySection(allDay, ds, weekStart) ==
    [d \in DOMAIN ds |->
        LET cell == DayAllDayEvents(allDay, ds[d])
        IN  [k \in DOMAIN cell |-> Segment(cell[k], ds[d], d - 1, weekStart)]]

----------------------------------------------------------------------------
(* useCurrentTimeIndicator (utils.ts). *)

\* calculateTimePosition, run at wall-clock time t by an effect whose closure
\* holds the inputs date and v.  position is in 1/1440 percent.
CalculateTimePosition(t, date, v) ==
    LET hours == getHours(t)
        minutes == getMinutes(t)
        totalMinutes == hours * 60 + minutes
        dayStartMinutes == 0
        position == (totalMinutes - dayStartMinutes) * 100
        isCurrentTimeVisible ==
            IF v = "day" THEN isSameDay(t, date)
            ELSE IF v = "week"
                 THEN isWithinInterval(t, [start |-> startOfWeek(date), end |-> endOfWeek(date)])
                 ELSE FALSE
    IN  [position |-> position, visible |-> isCurrentTimeVisible]

\* Mutant of Cleanup: the interval is never cleared.
Cleanup_Leak(live, handle) == live

\* The cleanup the effect returns: clearInterval(interval).
Cleanup(live, handle) == {t \in live : t.handle # handle}

\* The effect body: calculate immediately, then setInterval.  The new timer
\* keeps the closure's inputs.
RunEffect(live, date, v) ==
    /\ nextHandle < MaxHandles
    /\ nextHandle' = nextHandle + 1
    /\ interval' = nextHandle + 1
    /\ timers' = live \cup {[handle |-> nextHandle + 1, currentDate |-> date, view |-> v]}
    /\ currentTimePosition' = CalculateTimePosition(now, date, v).position
    /\ currentTimeVisible' = CalculateTimePosition(now, date, v).visible

----------------------------------------------------------------------------
(* Inputs of the model. *)

\* Day 0 is a Sunday: week 1 is days 7..13, week 2 starts on day 14.
At(day, hour) == day * MinutesPerDay + hour * MinutesPerHour

\* The dates the week view is shown for: a Wednesday morning of week 1 and
\* the Sunday midnight that starts week 2.
CurrentDates == {At(10, 10), At(14, 0)}

\* Timed events around the midnight between Saturday of week 1 and Sunday of
\* week 2: from 22:00, 23:00 or 00:00 to 22:00, 23:00, 00:00, 01:00 or 03:00,
\* start <= end.
PackStarts == {22, 23, 24}
PackEnds == {22, 23, 24, 25, 27}

TimedPool ==
    {[start |-> At(13, p[1]), end |-> At(13, p[2]), allDay |-> FALSE] :
        p \in {q \in PackStarts \X PackEnds : q[1] <= q[2]}}

\* Events of any length from the Friday before week 1 to the Sunday of week 2,
\* at 00:00, 01:00 or 23:00, flagged all-day or not, start <= end.
BannerInstants == {At(d, h) : d \in {5, 9, 10, 14}, h \in {0, 1, 23}}

BannerPool ==
    {[start |-> p[1], end |-> p[2], allDay |-> f] :
        p \in {q \in BannerInstants \X BannerInstants : q[1] <= q[2]}, f \in BOOLEAN}

\* Two events of the Saturday evening: one across midnight, one of no length.
StackPool ==
    {[start |-> At(13, 22), end |-> At(13, 25), allDay |-> FALSE],
     [start |-> At(13, 23), end |-> At(13, 23), allDay |-> FALSE]}

\* The wall clock of the indicator starts late on the Saturday of week 1 and
\* advances in steps of 45 minutes, into week 2.
ClockStart == At(13, 23)
ClockStep == MinutesPerHour - 15

IndicatorDates == {At(10, 10), At(14, 0)}
Views == {"day", "week"}

----------------------------------------------------------------------------
(* The state machine. *)

Init ==
    /\ currentDate = At(10, 10)
    /\ events = <<>>
    /\ days = Days(At(10, 10))
    /\ allDayEvents = <<>>
    /\ processedDayEvents = ProcessedDayEvents(<<>>, Days(At(10, 10)))
    /\ allDaySection = AllDaySection(<<>>, Days(At(10, 10)), WeekStart(At(10, 10)))
    /\ mounted = FALSE
    /\ indicatorDate = At(10, 10)
    /\ view = "week"
    /\ now = ClockStart
    /\ timers = {}
    /\ interval = 0
    /\ nextHandle = 0
    /\ currentTimePosition = 0
    /\ currentTimeVisible = FALSE

\* WeekView rendered with the props (date, evs): every memoised value is
\* recomputed and the all-day section rendered from them.
Render(date, evs) ==
    /\ currentDate' = date
    /\ events' = evs
    /\ days' = Days(date)
    /\ allDayEvents' = AllDayEvents(evs, Days(date))
    /\ processedDayEvents' = ProcessedDayEvents(evs, Days(date))
    /\ allDaySection' = AllDaySection(AllDayEvents(evs, Days(date)), Days(date), WeekStart(date))
    /\ UNCHANGED indicatorVars

\* The parent adds an event to the list; its id is its place in the list.
AddEvent(e, max) ==
    /\ Len(events) < max
    /\ Render(currentDate,
              Append(events, [id |-> Len(events) + 1, start |-> e.start, end |-> e.end,
                              allDay |-> e.allDay]))

AddTimedEvent == \E e \in TimedPool : AddEvent(e, MaxEvents)

AddBannerEvent == \E e \in BannerPool : AddEvent(e, MaxBannerEvents)

AddStackEvent == \E e \in StackPool : AddEvent(e, MaxStack)

\* The parent removes the last event of the list.
RemoveEvent ==
    /\ events # <<>>
    /\ Render(currentDate, SubSeq(events, 1, Len(events) - 1))

\* The parent shows another week.
Navigate ==
    \E date \in CurrentDates :
        /\ date # currentDate
        /\ Render(date, events)

\* The component that uses the hook mounts: first render, then the effect.
Mount ==
    \E date \in IndicatorDates, v \in Views :
        /\ ~mounted
        /\ mounted' = TRUE
        /\ indicatorDate' = date
        /\ view' = v
        /\ RunEffect(timers, date, v)
        /\ UNCHANGED <<now, weekViewVars>>

\* A render with another currentDate or view: the previous effect's cleanup,
\* then the effect.
ChangeInputs ==
    \E date \in IndicatorDates, v \in Views :
        /\ mounted
        /\ <<date, v>> # <<indicatorDate, view>>
        /\ indicatorDate' = date
        /\ view' = v
        /\ RunEffect(Cleanup(timers, interval), date, v)
        /\ UNCHANGED <<mounted, now, weekViewVars>>

\* A live timer fires: calculateTimePosition with the inputs of its closure.
IntervalFires ==
    \E t \in timers :
        /\ currentTimePosition' = CalculateTimePosition(now, t.currentDate, t.view).position
        /\ currentTimeVisible' = CalculateTimePosition(now, t.currentDate, t.view).visible
        /\ UNCHANGED <<mounted, indicatorDate, view, now, timers, interval, nextHandle,
                       weekViewVars>>

\* The component unmounts: the effect's cleanup.
Unmount ==
    /\ mounted
    /\ mounted' = FALSE
    /\ timers' = Cleanup(timers, interval)
    /\ interval' = 0
    /\ UNCHANGED <<indicatorDate, view, now, nextHandle, currentTimePosition,
                   currentTimeVisible, weekViewVars>>

\* Time passes.
ClockAdvances ==
    /\ now < ClockStart + MaxClockSteps * ClockStep
    /\ now' = now + ClockStep
    /\ UNCHANGED <<mounted, indicatorDate, view, timers, interval, nextHandle,
                   currentTimePosition, currentTimeVisible, weekViewVars>>

\* The week view with timed events around a midnight.
Next == AddTimedEvent \/ RemoveEvent \/ Navigate

Spec == Init /\ [][Next]_vars

\* The week view with all-day, multi-day and timed events of any length.
NextBanner == AddBannerEvent \/ RemoveEvent \/ Navigate

SpecBanner == Init /\ [][NextBanner]_vars

\* The week view with many events on one evening.
NextStack == AddStackEvent \/ RemoveEvent \/ Navigate

SpecStack == Init /\ [][NextStack]_vars

\* The current-time indicator.
NextIndicator == Mount \/ ChangeInputs \/ IntervalFires \/ Unmount \/ ClockAdvances

SpecIndicator == Init /\ [][NextIndicator]_vars

----------------------------------------------------------------------------
(* Vocabulary of the properties. *)

Max(a, b) == IF a >= b THEN a ELSE b
Min(a, b) == IF a <= b THEN a ELSE b

\* The event's interval clipped to the day that starts at midnight day.
ClippedStart(event, day) == Max(event.start, day)
ClippedEnd(event, day) == Min(event.end, day + MinutesPerDay)

\* Open-interval overlap of two events' intervals clipped to the day.
ClippedOverlap(a, b, day) ==
    /\ ClippedStart(a, day) < ClippedEnd(b, day)
    /\ ClippedStart(b, day) < ClippedEnd(a, day)

Duration(event) == event.end - event.start

\* The column of a positioned event, read back from its zIndex.
ColumnOf(positioned) == positioned.zIndex - 10

\* Highest column index used on day index d, plus one; 0 without events.
ColumnCount(d) ==
    LET used == {ColumnOf(processedDayEvents[d][i]) : i \in DOMAIN processedDayEvents[d]}
    IN  IF used = {} THEN 0 ELSE (CHOOSE k \in used : \A m \in used : m <= k) + 1

\* Size of the largest set of the day's events whose clipped intervals
\* pairwise overlap.
MaxClique(d) ==
    LET P == processedDayEvents[d]
        cliques == {S \in SUBSET (DOMAIN P) :
                       \A i \in S, j \in S :
                           i # j => ClippedOverlap(P[i].event, P[j].event, days[d])}
    IN  CHOOSE n \in 0..Len(P) :
            /\ \E S \in cliques : Cardinality(S) = n
            /\ \A S \in cliques : Cardinality(S) <= n

\* The timed grid of day index d and the banner cell of day index d hold the event.
InTimedGrid(e, d) == \E i \in DOMAIN processedDayEvents[d] : processedDayEvents[d][i].event = e
InBannerCell(e, d) == \E k \in DOMAIN allDaySection[d] : allDaySection[d][k].event = e

----------------------------------------------------------------------------
(* C1 *)

\* C1: whenever two distinct events have the same column on the same day,
\* their intervals clipped to that day do not overlap.
C1_SameColumnNoOverlap ==
    \A d \in DOMAIN processedDayEvents :
        \A i \in DOMAIN processedDayEvents[d], j \in DOMAIN processedDayEvents[d] :
            LET a == processedDayEvents[d][i]
                b == processedDayEvents[d][j]
            IN  (i # j /\ ColumnOf(a) = ColumnOf(b))
                    => ~ClippedOverlap(a.event, b.event, days[d])

\* Two events of positive clipped length share a column of a day, the second
\* starting when the first ends, and a third event of the day has another column.
C1_Witness ==
    \E d \in DOMAIN processedDayEvents :
        \E i, j, k \in DOMAIN processedDayEvents[d] :
            LET P == processedDayEvents[d]
            IN  /\ i # j
                /\ ColumnOf(P[i]) = ColumnOf(P[j]) /\ ColumnOf(P[k]) # ColumnOf(P[i])
                /\ ClippedEnd(P[i].event, days[d]) = ClippedStart(P[j].event, days[d])
                /\ \A m \in {i, j} :
                       ClippedStart(P[m].event, days[d]) < ClippedEnd(P[m].event, days[d])

----------------------------------------------------------------------------
(* C2 *)

\* C2: the number of columns of a day is the size of the largest set of that
\* day's events whose clipped intervals pairwise overlap, and 0 without events.
C2_ColumnsEqualMaxClique ==
    \A d \in DOMAIN processedDayEvents : ColumnCount(d) = MaxClique(d)

----------------------------------------------------------------------------
(* C3 *)

\* The calendar dates on which the event starts and ends differ by one or more.
EndsOnLaterDate(e) == differenceInCalendarDays(e.end, e.start) >= 1

\* The event lasts one full day or more.
LastsFullDay(e) == e.end - e.start >= MinutesPerDay

\* The event touches a day of the displayed week.
TouchesWeek(e) == \E d \in DOMAIN days : TouchesDay(e, days[d])

\* An event that the rule given by Multi(_) classifies multi-day is in the
\* banner when it touches the week and in no timed grid; any other event is
\* not in the banner.
RoutedBy(Multi(_)) ==
    \A i \in DOMAIN events :
        LET e == events[i]
        IN  /\ isMultiDayEvent(e) <=> Multi(e)
            /\ Multi(e) => /\ \A d \in DOMAIN days : ~InTimedGrid(e, d)
                           /\ TouchesWeek(e) => e \in Range(allDayEvents)
            /\ ~Multi(e) => e \notin Range(allDayEvents)

\* C3 as stated: an event is multi-day iff allDay is set or its end falls one
\* calendar date or more after its start; so an event from 23:00 to 01:00 of
\* the next day is in the banner and in no timed grid.
C3_CalendarDateRule == RoutedBy(LAMBDA e : e.allDay \/ EndsOnLaterDate(e))

\* C3 amended: an event is multi-day iff allDay is set or it lasts 24 hours
\* or more; an event with allDay unset that crosses midnight and lasts less
\* is in the timed grid of each day of the week it touches, not in the banner.
C3_FullDayRule ==
    /\ RoutedBy(LAMBDA e : e.allDay \/ LastsFullDay(e))
    /\ \A i \in DOMAIN events :
           (~events[i].allDay /\ EndsOnLaterDate(events[i]) /\ ~LastsFullDay(events[i]))
               => \A d \in DOMAIN days :
                      TouchesDay(events[i], days[d]) => InTimedGrid(events[i], d)

\* An event from 23:00 to 01:00 of the next day, allDay unset, is in the timed
\* grids of both days.
C3_Witness ==
    \E i \in DOMAIN events, d \in DOMAIN days :
        /\ ~events[i].allDay
        /\ events[i].start = days[d] + 23 * MinutesPerHour
        /\ events[i].end = days[d] + 25 * MinutesPerHour
        /\ d + 1 \in DOMAIN days
        /\ InTimedGrid(events[i], d) /\ InTimedGrid(events[i], d + 1)

----------------------------------------------------------------------------
(* C4 *)

\* C4: on every day of the week that an event touches, the event is in
\* exactly one of the day's banner cell and the day's timed grid.
C4_ExactlyOneRegion ==
    \A i \in DOMAIN events, d \in DOMAIN days :
        TouchesDay(events[i], days[d])
            => (InBannerCell(events[i], d) <=> ~InTimedGrid(events[i], d))

\* An event that touches two days of the week is in the timed grid of both
\* and in no banner cell.
C4_Witness ==
    \E i \in DOMAIN events, d \in DOMAIN days :
        /\ d + 1 \in DOMAIN days
        /\ isSameDay(days[d], events[i].start) /\ isSameDay(days[d + 1], events[i].end)
        /\ InTimedGrid(events[i], d) /\ InTimedGrid(events[i], d + 1)
        /\ ~InBannerCell(events[i], d) /\ ~InBannerCell(events[i], d + 1)

----------------------------------------------------------------------------
(* C5 *)

\* C5: in every day cell where a banner event appears its title is shown iff
\* the day is the event's start date, or the cell is the first of the week
\* and the event starts before the week; so each banner event shows its title
\* in exactly one cell of the week.
C5_TitleInOneCell ==
    /\ \A d \in DOMAIN allDaySection :
           \A k \in DOMAIN allDaySection[d] :
               LET seg == allDaySection[d][k]
               IN  seg.titleShown <=> \/ isSameDay(days[d], seg.event.start)
                                      \/ (d = 1 /\ seg.event.start < days[1])
    /\ \A i \in DOMAIN allDayEvents :
           Cardinality({d \in DOMAIN allDaySection :
                           \E k \in DOMAIN allDaySection[d] :
                               /\ allDaySection[d][k].event = allDayEvents[i]
                               /\ allDaySection[d][k].titleShown}) = 1

\* An event from the Friday before the week to the Tuesday of the week is in
\* the cells of Sunday, Monday and Tuesday and shows its title on Sunday.
C5_Witness ==
    \E i \in DOMAIN allDayEvents :
        LET e == allDayEvents[i]
        IN  /\ startOfDay(e.start) = days[1] - 2 * MinutesPerDay
            /\ startOfDay(e.end) = days[3]
            /\ \A d \in 1..3 : InBannerCell(e, d)
            /\ \E k \in DOMAIN allDaySection[1] :
                   allDaySection[1][k].event = e /\ allDaySection[1][k].titleShown

----------------------------------------------------------------------------
(* C6 *)

\* At most one timer is live, it is the one of the current effect, and it
\* holds the current inputs; an unmounted hook has no live timer.
TimerOfCurrentInputs ==
    /\ Cardinality(timers) <= 1
    /\ \A t \in timers :
           /\ mounted
           /\ t.handle = interval
           /\ t.currentDate = indicatorDate
           /\ t.view = view

\* While the hook stays unmounted the position and the visibility are not set.
NoCalculationWhileUnmounted ==
    (~mounted /\ ~mounted') => UNCHANGED <<currentTimePosition, currentTimeVisible>>

\* C6: over any sequence of mount, tick, change of inputs and unmount, at most
\* one timer is live, the timer of previous inputs is cancelled when the
\* inputs change, and after unmount no timer is live and nothing is recomputed.
C6_TimerLifecycle == []TimerOfCurrentInputs /\ [][NoCalculationWhileUnmounted]_vars

\* The hook was mounted, its inputs changed, time passed and it is unmounted.
C6_Witness ==
    /\ ~mounted
    /\ nextHandle >= 2
    /\ now > ClockStart
    /\ timers = {}
    /\ currentTimePosition # 0

----------------------------------------------------------------------------
(* C7 *)

\* The event list in the order given by the permutation p of its indices.
Permuted(p) == [i \in DOMAIN events |-> events[p[i]]]

\* C7: for every permutation of the event list, every event gets the same
\* rectangle on every day.
C7_OrderIndependent ==
    \A p \in Permutations(DOMAIN events) :
        \A d \in DOMAIN days :
            Range(ProcessedDayEvents(Permuted(p), days)[d]) = Range(processedDayEvents[d])

----------------------------------------------------------------------------
(* C8 *)

\* C8: left and width of every positioned event are within the day column
\* (0 to 10 tenths); column 0 has left 0 and width 1, column k > 0 has left
\* k * 0.1 and width 0.9.
C8_WithinDayColumn ==
    \A d \in DOMAIN processedDayEvents :
        \A i \in DOMAIN processedDayEvents[d] :
            LET p == processedDayEvents[d][i]
            IN  /\ 0 <= p.left /\ p.left <= 10
                /\ 0 <= p.width /\ p.width <= 10
                /\ ColumnOf(p) = 0 => (p.left = 0 /\ p.width = 10)
                /\ ColumnOf(p) > 0 => (p.left = ColumnOf(p) /\ p.width = 9)

----------------------------------------------------------------------------
(* C9 *)

\* The number of day cells of the week in which the event appears.
CellsOf(e) == Cardinality({d \in DOMAIN allDaySection : InBannerCell(e, d)})

\* C9: a banner segment is draggable, and flagged first and last day, only
\* for an event that starts and ends on the same calendar date; every segment
\* of an event in more than one cell is not draggable and is rounded by the
\* cell's own isFirstDay and isLastDay.
C9_DraggableOnlySingleDay ==
    \A d \in DOMAIN allDaySection :
        \A k \in DOMAIN allDaySection[d] :
            LET seg == allDaySection[d][k]
            IN  /\ seg.draggable => isSameDay(seg.event.start, seg.event.end)
                /\ CellsOf(seg.event) > 1 =>
                       /\ ~seg.draggable
                       /\ seg.isFirstDay = isSameDay(days[d], seg.event.start)
                       /\ seg.isLastDay = isSameDay(days[d], seg.event.end)

----------------------------------------------------------------------------
(* C10 *)

\* Along the placement order of every day, Key(_, day) does not decrease and
\* among equal keys the duration does not increase.
PlacedInOrderOf(Key(_, _)) ==
    \A d \in DOMAIN processedDayEvents :
        \A i \in DOMAIN processedDayEvents[d], j \in DOMAIN processedDayEvents[d] :
            LET a == processedDayEvents[d][i].event
                b == processedDayEvents[d][j].event
            IN  i < j => \/ Key(a, days[d]) < Key(b, days[d])
                         \/ /\ Key(a, days[d]) = Key(b, days[d])
                            /\ Duration(a) >= Duration(b)

\* Among the events of a day with equal Key(_, day), a longer event has a
\* lower column than a shorter one that satisfies Counts(_).
LongerIsLower(Key(_, _), Counts(_)) ==
    \A d \in DOMAIN processedDayEvents :
        \A i \in DOMAIN processedDayEvents[d], j \in DOMAIN processedDayEvents[d] :
            LET a == processedDayEvents[d][i]
                b == processedDayEvents[d][j]
            IN  (/\ Key(a.event, days[d]) = Key(b.event, days[d])
                 /\ Duration(a.event) > Duration(b.event)
                 /\ Counts(b.event))
                    => ColumnOf(a) < ColumnOf(b)

\* C10 as stated: events are placed by start clipped to the day ascending,
\* then duration descending; among equal clipped starts the longer event is
\* placed first and has the lower column.
C10_ByClippedStart ==
    /\ PlacedInOrderOf(LAMBDA e, day : ClippedStart(e, day))
    /\ LongerIsLower(LAMBDA e, day : ClippedStart(e, day), LAMBDA e : TRUE)

\* C10 amended: events are placed by their own start ascending, then duration
\* descending; among equal starts the longer event is placed first, and has
\* the lower column when the shorter event has a length above zero.
C10_ByOwnStart ==
    /\ PlacedInOrderOf(LAMBDA e, day : e.start)
    /\ LongerIsLower(LAMBDA e, day : e.start, LAMBDA e : e.start < e.end)

\* Two events that began before the day's midnight at the same time, of
\* different lengths, are on that day; the longer is placed first.
C10_Witness ==
    \E d \in DOMAIN processedDayEvents :
        \E i, j \in DOMAIN processedDayEvents[d] :
            LET a == processedDayEvents[d][i]
                b == processedDayEvents[d][j]
            IN  /\ i < j
                /\ a.event.start = b.event.start
                /\ a.event.start < days[d]
                /\ Duration(a.event) > Duration(b.event)
                /\ ColumnOf(a) < ColumnOf(b)

----------------------------------------------------------------------------
(* C11 *)

\* C11: for every timed event with start <= end, on every day whose timed
\* grid holds it, the rectangle is inside the day band: top >= 0, height >= 0
\* and top + height <= 24 * hourHeight (here in 1/60 pixel).
C11_WithinDayBand ==
    \A d \in DOMAIN processedDayEvents :
        \A i \in DOMAIN processedDayEvents[d] :
            LET p == processedDayEvents[d][i]
            IN  p.event.start <= p.event.end
                    => /\ p.top >= 0
                       /\ p.height >= 0
                       /\ p.top + p.height <= 24 * MinutesPerHour * hourHeight

====
